---- MODULE Spec2Model ----
(***************************************************************************)
(* Model of src/src/function_app.py: the two MCP tool handlers who_am_i    *)
(* and kusto_query, their helpers (get_access_token, format_user_info,     *)
(* get_kusto_access_token, decode_query) and the tool registrations.       *)
(*                                                                         *)
(* Python values are records [t, v]: t is the Python/JSON type tag and v   *)
(* the text of the value.  A handler invocation is one action: its inputs  *)
(* (the context string, and what the outside world answers during the      *)
(* call) are chosen with \E, and the action records the returned value     *)
(* and the side effects of that invocation.                                *)
(***************************************************************************)
EXTENDS Naturals, Sequences, FiniteSets, TLC

VARIABLES env, tool, context, world, ret, raised, eff, issued, sent, obtained, call

vars == <<env, tool, context, world, ret, raised, eff, issued, sent, obtained, call>>

\* ------------------------------------------------------------------ bounds
MaxIssued == 2        \* tokens the identity provider issues in one behaviour
MaxRows == 2          \* rows of a primary result table

\* ---------------------------------------------------------- Python values
Str(s) == [t |-> "str", v |-> s]
Num(s) == [t |-> "num", v |-> s]
Bool(b) == [t |-> "bool", v |-> IF b THEN "True" ELSE "False"]
None == [t |-> "null", v |-> ""]
\* a key that a dict does not hold (not a value)
Absent == [t |-> "absent", v |-> ""]

\* bool(x)
Truthy(x) ==
    CASE x.t = "str" -> x.v # ""
      [] x.t = "num" -> x.v # "0"
      [] x.t = "bool" -> x.v = "True"
      [] OTHER -> FALSE

\* str(x), as an f-string renders it
PyStr(x) ==
    CASE x.t = "null" -> "None"
      [] x.t = "absent" -> "None"
      [] OTHER -> x.v

\* dict.get(key, default) and dict.get(key), given the entry (or Absent)
Get(entry, default) == IF entry.t = "absent" THEN default ELSE entry
Get1(entry) == Get(entry, None)

\* ------------------------------------------------------------- constants
GraphScope == "https://graph.microsoft.com/.default"
KustoScope == "https://help.kusto.windows.net/.default"

\* the text of a small natural number
NumText(n) ==
    CASE n = 0 -> "0" [] n = 1 -> "1" [] n = 2 -> "2" [] n = 3 -> "3"
      [] n = 4 -> "4" [] n = 200 -> "200" [] n = 401 -> "401"
      [] n = 500 -> "500" [] OTHER -> "n"

\* the n-th token the identity provider issues for a scope (an opaque string)
TokenString(scope, n) == "tok#" \o NumText(n) \o "@" \o scope

\* ------------------------------------------------------------ environment
\* os.getenv gives None or a string.  The injected token may be any string,
\* also one that equals a token the identity provider issues for the graph.
TokenValues == {None, Str(""), Str("easyauth-token"), Str(TokenString(GraphScope, 1))}

\* HTTP_X_MS_CLIENT_PRINCIPAL: what base64.b64decode(..).decode('utf-8') and
\* json.loads make of it.  enc: "badb64" (b64decode raises), "ok"; doc:
\* "malformed", "array", "object".
Principal(enc, doc, name, email) ==
    [t |-> "str", v |-> "principal", enc |-> enc, doc |-> doc, name |-> name, email |-> email]

NoPrincipal(x) ==
    [t |-> x.t, v |-> x.v, enc |-> "", doc |-> "", name |-> Absent, email |-> Absent]

PrincipalValues ==
    {NoPrincipal(None), NoPrincipal(Str(""))}
    \cup {Principal("badb64", "", Absent, Absent),
          Principal("ok", "malformed", Absent, Absent), Principal("ok", "array", Absent, Absent)}
    \cup {Principal("ok", "object", Absent, Absent),
          Principal("ok", "object", Str("Alice"), Str("a@x.com")),
          Principal("ok", "object", None, Str("a@x.com"))}

ClusterValues == {None, Str(""), Str("https://c.kusto.windows.net")}
DatabaseValues == {None, Str(""), Str("db")}

\* The principal is read only when the token is present (line 150), so with
\* the token absent two of its values are enough.
Envs ==
    {e \in [token : TokenValues, principal : PrincipalValues,
            cluster : ClusterValues, database : DatabaseValues] :
        Truthy(e.token)
        \/ e.principal \in {NoPrincipal(None),
                            Principal("ok", "object", Str("Alice"), Str("a@x.com"))}}

\* ---------------------------------------------------------------- inputs
\* The context string, by what json.loads makes of it.  doc: "malformed"
\* (json.loads raises), "array" (a JSON value that is not an object),
\* "object"; args: the "arguments" entry: "absent", "null", "object".
Context(doc, args, inc, q) == [doc |-> doc, args |-> args, includeEmail |-> inc, query |-> q]

IncludeEmailValues == {Absent, Bool(TRUE), Bool(FALSE)}
QueryValues == {Absent, Str(""), Str("print%201"), Num("5")}

BadContexts ==
    {Context("malformed", "absent", Absent, Absent), Context("array", "absent", Absent, Absent),
     Context("object", "absent", Absent, Absent), Context("object", "null", Absent, Absent)}

\* contexts a caller hands to whoAmI and to kustoQuery
WhoContexts ==
    BadContexts
    \cup {Context("object", "object", i, Absent) : i \in IncludeEmailValues}
KustoContexts == BadContexts \cup {Context("object", "object", Absent, q) : q \in QueryValues}

NoContext == Context("", "", Absent, Absent)

\* What the outside world answers during one invocation.
\* cred: DefaultAzureCredential().get_token: "ok" or "raise".
CredOutcomes == {"ok", "raise"}

\* http: requests.get raises, or a response with a status and a body; the
\* body by what response.json() makes of it, and its text.
Response(status, doc, dn, mail, upn, text) ==
    [k |-> "response", status |-> status, doc |-> doc, displayName |-> dn,
     mail |-> mail, userPrincipalName |-> upn, text |-> text]

HttpRaises == [k |-> "raise", status |-> 0, doc |-> "", displayName |-> Absent,
               mail |-> Absent, userPrincipalName |-> Absent, text |-> ""]
NoHttp == [HttpRaises EXCEPT !.k = ""]

Statuses == {200, 401}

HttpOutcomes ==
    {HttpRaises}
    \cup {Response(s, "malformed", Absent, Absent, Absent, "Unauthorized") : s \in Statuses}
    \cup {Response(200, "array", Absent, Absent, Absent, "[]")}
    \cup {Response(401, "object", Str("Bob"), Str("b@y.com"), Absent, "{..}")}
    \cup {Response(200, "object", Str("Bob"), mail, upn, "{..}") :
            mail \in {Absent, Str("b@y.com"), None},
            upn \in {Absent, Str("bob@y.onmicrosoft.com")}}
    \cup {Response(200, "object", dn, Str("b@y.com"), Absent, "{..}") : dn \in {Absent, None}}

\* engine: what KustoClient.execute_query gives: it raises a
\* KustoServiceError, raises something else, or answers with a list of primary
\* result tables, the first holding columns and rows.  The engine names the
\* columns of a result table uniquely.  A row holds one value per column; a
\* row that is shorter than the column list makes row[i] raise IndexError.
DateTime(s) == [t |-> "datetime", v |-> s]
ColumnLists == {<<>>, <<"a">>, <<"b", "a">>}
RowValues == {<<Num("1")>>, <<Num("2"), DateTime("2024-01-01 00:00:00")>>}

RowLists == UNION {[1..n -> RowValues] : n \in 0..MaxRows}

Table(k, columns, rows) == [k |-> k, columns |-> columns, rows |-> rows]
NoEngine == Table("", <<>>, <<>>)

EngineOutcomes ==
    {Table("serviceError", <<>>, <<>>), Table("raise", <<>>, <<>>),
     Table("noPrimary", <<>>, <<>>)}
    \cup {Table("table", c, r) : c \in ColumnLists, r \in RowLists}

World(cred, http, engine) == [cred |-> cred, http |-> http, engine |-> engine]
NoWorld == World("", NoHttp, NoEngine)

\* ---------------------------------------------------------------- effects
\* What one invocation did: which environment values it read, which provider
\* it called, what it sent where, and the rows converted so far.
NoEff ==
    [principalRead |-> FALSE, principalDecoded |-> FALSE, provider |-> "",
     credBuilt |-> FALSE, scope |-> "", token |-> "", httpCalled |-> FALSE,
     bearer |-> "", bodyParsed |-> FALSE, configRead |-> FALSE,
     clientBuilt |-> FALSE, engineCalled |-> FALSE, engineToken |-> "",
     sentQuery |-> "", results |-> <<>>]

\* how a function body ends: it returns v, or raises exception class x with
\* text m
Return(v, e) == [k |-> "return", v |-> v, x |-> "", m |-> "", eff |-> e]
Raise(x, m, e) == [k |-> "raise", v |-> None, x |-> x, m |-> m, eff |-> e]

\* the classes the model raises; KustoServiceError and all the others derive
\* from Exception
ExceptionClasses ==
    {"JSONDecodeError", "AttributeError", "TypeError", "IndexError", "binascii.Error",
     "CredentialUnavailableError", "ConnectionError",
     "KustoServiceError", "KustoClientError"}

\* does "except <clause>" catch an exception of class x
Catches(clause, x) == clause = x \/ (clause = "Exception" /\ x \in ExceptionClasses)

\* ---------------------------------------------------------------- helpers
\* a provider that asks for the graph scope whatever the audience that asked
TokenForGraphOnly(scope, e, cred, n) ==
    IF Truthy(e.token)
    THEN [k |-> "return", token |-> e.token.v, credBuilt |-> FALSE, scope |-> ""]
    ELSE IF cred = "raise"
         THEN [k |-> "raise", token |-> "", credBuilt |-> TRUE, scope |-> GraphScope]
         ELSE [k |-> "return", token |-> TokenString(GraphScope, n + 1),
               credBuilt |-> TRUE, scope |-> GraphScope]

\* get_access_token / get_kusto_access_token: the injected token verbatim when
\* os.getenv("HTTP_X_MS_TOKEN_AAD_ACCESS_TOKEN") is truthy, else a fresh
\* DefaultAzureCredential and get_token(scope); n tokens were issued so far.
TokenFor(scope, e, cred, n) ==
    IF Truthy(e.token)
    THEN [k |-> "return", token |-> e.token.v, credBuilt |-> FALSE, scope |-> ""]
    ELSE IF cred = "raise"
         THEN [k |-> "raise", token |-> "", credBuilt |-> TRUE, scope |-> scope]
         ELSE [k |-> "return", token |-> TokenString(scope, n + 1),
               credBuilt |-> TRUE, scope |-> scope]

get_access_token(e, cred, n) == TokenFor(GraphScope, e, cred, n)

get_kusto_access_token(e, cred, n) == TokenFor(KustoScope, e, cred, n)

\* a format_user_info that does not look at the email
format_user_info_any_email(display_name, email, include_email) ==
    IF Truthy(include_email)
    THEN Str(PyStr(display_name) \o " (" \o PyStr(email) \o ")")
    ELSE display_name

format_user_info(display_name, email, include_email) ==
    IF Truthy(include_email) /\ Truthy(email)
    THEN Str(PyStr(display_name) \o " (" \o PyStr(email) \o ")")
    ELSE display_name

\* the arguments bag: content.get("arguments", {}) and then .get(name, ..)
Argument(c, entry) == IF c.args = "absent" THEN Absent ELSE entry

\* json.loads(context) and content.get("arguments", {}).get: the exception
\* they raise, or "" when they go through
ParseError(c) ==
    CASE c.doc = "malformed" -> <<"JSONDecodeError", "Expecting value: line 1 column 1 (char 0)">>
      [] c.doc = "array" -> <<"AttributeError", "'list' object has no attribute 'get'">>
      [] c.args = "null" -> <<"AttributeError", "'NoneType' object has no attribute 'get'">>
      [] OTHER -> <<"", "">>

\* ---------------------------------------------------------------- who_am_i
\* the injected-claim branch (lines 151-163)
who_am_i_easyauth(e, include_email) ==
    LET user_principal == e.principal
        e1 == [NoEff EXCEPT !.principalRead = TRUE]
        e2 == [e1 EXCEPT !.principalDecoded = TRUE]
    IN  IF ~Truthy(user_principal)
        THEN Return(Str("No user principal found in EasyAuth headers"), e1)
        ELSE IF user_principal.enc = "badb64"
        THEN Raise("binascii.Error", "Incorrect padding", e2)
        ELSE IF user_principal.doc = "malformed"
        THEN Raise("JSONDecodeError", "Expecting value: line 1 column 1 (char 0)", e2)
        ELSE IF user_principal.doc = "array"
        THEN Raise("AttributeError", "'list' object has no attribute 'get'", e2)
        ELSE LET display_name == Get(user_principal.name, Str("Unknown User"))
                 email == Get1(user_principal.email)
             IN  Return(format_user_info(display_name, email, include_email), e2)

\* a status check that lets client errors through
NotOkServerOnly(response) == response.status >= 500

\* line 175: response.status_code != 200
NotOk(response) == response.status # 200

\* the remote branch (lines 165-184)
who_am_i_graph(e, w, n, include_email) ==
    LET tp == get_access_token(e, w.cred, n)
        e1 == [NoEff EXCEPT !.provider = "graph", !.credBuilt = tp.credBuilt,
                            !.scope = tp.scope, !.token = tp.token]
        e2 == [e1 EXCEPT !.httpCalled = TRUE, !.bearer = tp.token]
        e3 == [e2 EXCEPT !.bodyParsed = TRUE]
        response == w.http
    IN  IF tp.k = "raise"
        THEN Raise("CredentialUnavailableError", "DefaultAzureCredential failed to retrieve a token", e1)
        ELSE IF response.k = "raise"
        THEN Raise("ConnectionError", "Max retries exceeded", e2)
        ELSE IF NotOk(response)
        THEN Return(Str("Failed to get user info: " \o NumText(response.status)
                        \o " - " \o response.text), e2)
        ELSE IF response.doc = "malformed"
        THEN Raise("JSONDecodeError", "Expecting value: line 1 column 1 (char 0)", e3)
        ELSE IF response.doc = "array"
        THEN Raise("AttributeError", "'list' object has no attribute 'get'", e3)
        ELSE LET display_name == Get(response.displayName, Str("Unknown User"))
                 mail == Get1(response.mail)
                 email == IF Truthy(mail) THEN mail ELSE Get1(response.userPrincipalName)
             IN  Return(format_user_info(display_name, email, include_email), e3)

\* a branch on the identity claim instead of the token
RunningInAzureByPrincipal(e) == Truthy(e.principal)

\* a branch on the token being set, empty or not
RunningInAzureIfSet(e) == e.token.t # "null"

\* which branch line 150 takes: TRUE for the injected-claim branch
RunningInAzure(e) == Truthy(e.token)

\* the body of the try block (lines 145-184)
who_am_i_try(c, e, w, n) ==
    LET err == ParseError(c)
        include_email == Get(Argument(c, c.includeEmail), Bool(FALSE))
    IN  IF err[1] # ""
        THEN Raise(err[1], err[2], NoEff)
        ELSE IF RunningInAzure(e)
             THEN who_am_i_easyauth(e, include_email)
             ELSE who_am_i_graph(e, w, n, include_email)

\* the except clause of who_am_i (line 186)
WhoAmIExcept == "Exception"

who_am_i(c, e, w, n) ==
    LET o == who_am_i_try(c, e, w, n)
    IN  IF o.k = "raise" /\ Catches(WhoAmIExcept, o.x)
        THEN Return(Str("Error determining user identity: " \o o.m), o.eff)
        ELSE o

\* ------------------------------------------------------------- kusto_query
\* urllib.parse.unquote on the query strings of the model: %20 is a space
unquote(q) == IF q = "print%201" THEN "print 1" ELSE q

\* decode_query: unquote raises TypeError on a value that is not a string,
\* and the except clause then returns the value as it came
decode_query(encoded_query) ==
    IF encoded_query.t = "str" THEN Str(unquote(encoded_query.v)) ELSE encoded_query

\* a dict is the sequence of its <<key, value>> entries in insertion order;
\* d[key] = value replaces the value of a key it holds, else appends
DictSet(d, key, value) ==
    IF \E i \in 1..Len(d) : d[i][1] = key
    THEN [i \in 1..Len(d) |-> IF d[i][1] = key THEN <<key, value>> ELSE d[i]]
    ELSE Append(d, <<key, value>>)

\* a check that takes only None for a missing value
MissingIfNone(value) == value.t = "null"

\* a check that takes only the empty string for a missing value
MissingIfEmpty(value) == value = Str("")

\* line 215: not encoded_query
QueryMissing(encoded_query) == ~Truthy(encoded_query)

\* lines 226 and 229: not cluster_url, not database_name
ConfigMissing(value) == ~Truthy(value)

\* the inner loop (lines 250-252) over columns i..Len(columns): the row_dict,
\* or "raise" when row[i] is out of range
RECURSIVE RowDict(_, _, _, _)
RowDict(columns, row, i, row_dict) ==
    IF i > Len(columns) THEN [k |-> "ok", d |-> row_dict]
    ELSE IF i > Len(row) THEN [k |-> "raise", d |-> row_dict]
    ELSE RowDict(columns, row, i + 1, DictSet(row_dict, columns[i], row[i]))

\* a conversion that stops at a row it cannot convert and keeps the rest
RECURSIVE ConvertRowsPartial(_, _, _, _)
ConvertRowsPartial(columns, rows, r, results) ==
    IF r > Len(rows) THEN [k |-> "ok", results |-> results]
    ELSE LET rd == RowDict(columns, rows[r], 1, <<>>)
         IN  IF rd.k = "raise" THEN [k |-> "ok", results |-> results]
             ELSE ConvertRowsPartial(columns, rows, r + 1, Append(results, rd.d))

\* the outer loop (lines 247-253) over rows r..Len(rows), results so far
RECURSIVE ConvertRows(_, _, _, _)
ConvertRows(columns, rows, r, results) ==
    IF r > Len(rows) THEN [k |-> "ok", results |-> results]
    ELSE LET rd == RowDict(columns, rows[r], 1, <<>>)
         IN  IF rd.k = "raise" THEN [k |-> "raise", results |-> results]
             ELSE ConvertRows(columns, rows, r + 1, Append(results, rd.d))

RECURSIVE Join(_, _)
Join(parts, sep) ==
    IF parts = <<>> THEN ""
    ELSE IF Len(parts) = 1 THEN parts[1]
    ELSE parts[1] \o sep \o Join(Tail(parts), sep)

\* json.dumps(.., indent=2, default=str) of a cell, a row dict and the list
JsonCell(x) == IF x.t = "num" THEN x.v ELSE "\"" \o x.v \o "\""

JsonDict(d) ==
    IF d = <<>> THEN "{}"
    ELSE "{\n    "
         \o Join([i \in 1..Len(d) |-> "\"" \o d[i][1] \o "\": " \o JsonCell(d[i][2])], ",\n    ")
         \o "\n  }"

json_dumps(results) ==
    IF results = <<>> THEN "[]"
    ELSE "[\n  " \o Join([i \in 1..Len(results) |-> JsonDict(results[i])], ",\n  ") \o "\n]"

\* lines 232-258: token, client, query, conversion
kusto_query_execute(e, w, n, query, e0) ==
    LET tp == get_kusto_access_token(e, w.cred, n)
        e1 == [e0 EXCEPT !.provider = "kusto", !.credBuilt = tp.credBuilt,
                         !.scope = tp.scope, !.token = tp.token]
        e2 == [e1 EXCEPT !.clientBuilt = TRUE]
        e3 == [e2 EXCEPT !.engineCalled = TRUE, !.engineToken = tp.token,
                         !.sentQuery = query.v]
        response == w.engine
        conv == ConvertRows(response.columns, response.rows, 1, <<>>)
        e4 == [e3 EXCEPT !.results = conv.results]
    IN  IF tp.k = "raise"
        THEN Raise("CredentialUnavailableError", "DefaultAzureCredential failed to retrieve a token", e1)
        ELSE IF response.k = "serviceError"
        THEN Raise("KustoServiceError", "Semantic error: failed to resolve table", e3)
        ELSE IF response.k = "raise"
        THEN Raise("KustoClientError", "Failed to process network request", e3)
        ELSE IF response.k = "noPrimary"
        THEN Raise("IndexError", "list index out of range", e3)
        ELSE IF conv.k = "raise"
        THEN Raise("IndexError", "list index out of range", e4)
        ELSE Return(Str(json_dumps(conv.results)), e4)

\* the body of the try block (lines 211-258)
kusto_query_try(c, e, w, n) ==
    LET err == ParseError(c)
        encoded_query == Get1(Argument(c, c.query))
        query == decode_query(encoded_query)
        e0 == [NoEff EXCEPT !.configRead = TRUE]
        cluster_url == e.cluster
        database_name == e.database
    IN  IF err[1] # ""
        THEN Raise(err[1], err[2], NoEff)
        ELSE IF QueryMissing(encoded_query)
        THEN Return(Str("Error: No query provided in the request"), NoEff)
        ELSE IF query.t # "str"
        THEN Raise("TypeError", "'int' object is not subscriptable", NoEff)
        ELSE IF ConfigMissing(cluster_url)
        THEN Return(Str("Error: KUSTO_CLUSTER_URL environment variable is not set"), e0)
        ELSE IF ConfigMissing(database_name)
        THEN Return(Str("Error: KUSTO_DATABASE_NAME environment variable is not set"), e0)
        ELSE kusto_query_execute(e, w, n, query, e0)

\* the except clauses of kusto_query, in order (lines 260, 264)
KustoExcept == <<"KustoServiceError", "Exception">>

kusto_query(c, e, w, n) ==
    LET o == kusto_query_try(c, e, w, n)
    IN  IF o.k = "raise" /\ Catches(KustoExcept[1], o.x)
        THEN Return(Str("Kusto service error: " \o o.m), o.eff)
        ELSE IF o.k = "raise" /\ Catches(KustoExcept[2], o.x)
        THEN Return(Str("Error executing Kusto query: " \o o.m), o.eff)
        ELSE o

\* ------------------------------------------------------------ registrations
\* the toolName of each @app.generic_trigger registration
RegisteredTools == {"whoAmI", "kustoQuery"}

\* the tool names a caller may ask for
RequestedTools == RegisteredTools \cup {"getRecentActiveFunctionApps"}

\* ------------------------------------------------------------------- state
NoCall ==
    [fn |-> "", display_name |-> Absent, email |-> Absent, include_email |-> Absent,
     cred |-> "", before |-> 0, out |-> Absent, token |-> "", k |-> "",
     credBuilt |-> FALSE, scope |-> ""]

Init ==
    /\ env \in Envs
    /\ tool = ""
    /\ context = NoContext
    /\ world = NoWorld
    /\ ret = Absent
    /\ raised = FALSE
    /\ eff = NoEff
    /\ issued = 0
    /\ sent = {}
    /\ obtained = {}
    /\ call = NoCall

\* the audience a scope names
AudienceOf(scope) == IF scope = GraphScope THEN "graph" ELSE "kusto"

\* a token a provider returned: obtained for the audience of the provider
\* that was asked and, when a credential issued it, for the audience of the
\* scope it was requested with
ObtainedBy(provider, token, scope) ==
    IF provider = "" \/ token = "" THEN {}
    ELSE {<<provider, token>>}
         \cup (IF scope # "" THEN {<<AudienceOf(scope), token>>} ELSE {})

\* what an invocation with outcome o adds to the history: the tokens issued,
\* the tokens handed to each service and the tokens obtained for each audience
Record(t, c, w, o) ==
    /\ tool' = t
    /\ context' = c
    /\ world' = w
    /\ ret' = IF o.k = "return" THEN o.v ELSE Absent
    /\ raised' = (o.k = "raise")
    /\ eff' = o.eff
    /\ issued' = IF o.eff.credBuilt /\ o.eff.token # "" THEN issued + 1 ELSE issued
    /\ issued' <= MaxIssued
    /\ sent' = sent
               \cup (IF o.eff.httpCalled THEN {<<"graph", o.eff.bearer>>} ELSE {})
               \cup (IF o.eff.engineCalled THEN {<<"kusto", o.eff.engineToken>>} ELSE {})
    /\ obtained' = obtained \cup ObtainedBy(o.eff.provider, o.eff.token, o.eff.scope)
    /\ call' = NoCall
    /\ UNCHANGED env

\* The world answers only the calls the handler makes: the credential's
\* answer is drawn when the handler builds a credential, the HTTP response
\* when it calls the graph, the engine's answer when it runs the query.
CredAnswers(asked) == IF asked THEN CredOutcomes ELSE {""}
HttpAnswers(asked) == IF asked THEN HttpOutcomes ELSE {NoHttp}
EngineAnswers(asked) == IF asked THEN EngineOutcomes ELSE {NoEngine}

\* one invocation of the whoAmI tool
WhoAmI ==
    \E c \in WhoContexts :
      \E cred \in CredAnswers(who_am_i(c, env, NoWorld, issued).eff.credBuilt) :
        \E http \in HttpAnswers(who_am_i(c, env, World(cred, NoHttp, NoEngine), issued).eff.httpCalled) :
          LET w == World(cred, http, NoEngine)
          IN  /\ "whoAmI" \in RegisteredTools
              /\ Record("whoAmI", c, w, who_am_i(c, env, w, issued))

\* one invocation of the kustoQuery tool
KustoQuery ==
    \E c \in KustoContexts :
      \E cred \in CredAnswers(kusto_query(c, env, NoWorld, issued).eff.credBuilt) :
        \E engine \in EngineAnswers(kusto_query(c, env, World(cred, NoHttp, NoEngine), issued).eff.engineCalled) :
          LET w == World(cred, NoHttp, engine)
          IN  /\ "kustoQuery" \in RegisteredTools
              /\ Record("kustoQuery", c, w, kusto_query(c, env, w, issued))

\* a request for a tool that no registration names: no handler of the
\* program runs and the program returns nothing
Unregistered ==
    \E t \in RequestedTools \ RegisteredTools,
       c \in BadContexts \cup {Context("object", "object", Absent, Absent)} :
        /\ tool' = t
        /\ context' = c
        /\ world' = NoWorld
        /\ ret' = Absent
        /\ raised' = FALSE
        /\ eff' = NoEff
        /\ call' = NoCall
        /\ UNCHANGED <<env, issued, sent, obtained>>

\* no handler invocation is the last operation
Idle ==
    /\ tool' = ""
    /\ context' = NoContext
    /\ world' = NoWorld
    /\ ret' = Absent
    /\ raised' = FALSE
    /\ eff' = NoEff

\* a direct call of a token provider
CallTokenProvider(fn, audience, tp, cred) ==
    /\ call' = [NoCall EXCEPT !.fn = fn, !.cred = cred, !.before = issued,
                              !.token = tp.token, !.k = tp.k,
                              !.credBuilt = tp.credBuilt, !.scope = tp.scope]
    /\ issued' = IF tp.credBuilt /\ tp.k = "return" THEN issued + 1 ELSE issued
    /\ issued' <= MaxIssued
    /\ obtained' = obtained \cup ObtainedBy(audience, tp.token, tp.scope)
    /\ Idle
    /\ UNCHANGED <<env, sent>>

GetAccessToken ==
    \E cred \in CredOutcomes :
        CallTokenProvider("get_access_token", "graph", get_access_token(env, cred, issued), cred)

GetKustoAccessToken ==
    \E cred \in CredOutcomes :
        CallTokenProvider("get_kusto_access_token", "kusto", get_kusto_access_token(env, cred, issued), cred)

\* a direct call of format_user_info
NameValues == {Str("Alice"), None}
EmailValues == {None, Str(""), Str("a@x.com")}

FormatUserInfo ==
    \E d \in NameValues, m \in EmailValues, i \in {Bool(TRUE), Bool(FALSE)} :
        /\ call' = [NoCall EXCEPT !.fn = "format_user_info", !.display_name = d,
                                  !.email = m, !.include_email = i,
                                  !.out = format_user_info(d, m, i)]
        /\ Idle
        /\ UNCHANGED <<env, issued, sent, obtained>>

\* the tool handlers, as the host invokes them, and format_user_info
Next ==
    \/ WhoAmI
    \/ KustoQuery
    \/ Unregistered
    \/ FormatUserInfo

Spec == Init /\ [][Next]_vars

\* the token providers, called on their own
ProviderNext ==
    \/ GetAccessToken
    \/ GetKustoAccessToken

ProviderSpec == Init /\ [][ProviderNext]_vars

\* ------------------------------------------------------------------ claims
ParseOK(c) == ParseError(c)[1] = ""

\* C1: every invocation of who_am_i or kusto_query ends without an exception
\* reaching the caller and returns a single string.
C1_AlwaysAString ==
    tool \in {"whoAmI", "kustoQuery"} => (~raised /\ ret.t = "str")

\* C2: kusto_query with no query entry, or with no arguments object, returns
\* exactly the no-query error, and has by then read no cluster/database
\* configuration, acquired no token and contacted no engine.
C2_NoQuery ==
    (tool = "kustoQuery" /\ ParseOK(context)
        /\ Argument(context, context.query) = Absent)
    => /\ ret = Str("Error: No query provided in the request")
       /\ ~raised
       /\ ~eff.configRead
       /\ eff.provider = ""
       /\ ~eff.credBuilt
       /\ ~eff.clientBuilt
       /\ ~eff.engineCalled

C2_Witness ==
    /\ tool = "kustoQuery"
    /\ context = Context("object", "absent", Absent, Absent)
    /\ ret = Str("Error: No query provided in the request")
    /\ Truthy(env.cluster)
    /\ Truthy(env.database)

\* a query that is a non-empty string
QueryPresent(c) ==
    /\ ParseOK(c)
    /\ Argument(c, c.query).t = "str"
    /\ Argument(c, c.query).v # ""

\* C3: kusto_query with a query present and the cluster URL or the database
\* name missing or empty returns the error of the missing value, the cluster
\* URL's when both are missing, and acquires no token, builds no client and
\* sends no query.
C3_MissingConfig ==
    (tool = "kustoQuery" /\ QueryPresent(context)
        /\ (~Truthy(env.cluster) \/ ~Truthy(env.database)))
    => /\ ret = (IF ~Truthy(env.cluster)
                 THEN Str("Error: KUSTO_CLUSTER_URL environment variable is not set")
                 ELSE Str("Error: KUSTO_DATABASE_NAME environment variable is not set"))
       /\ ~raised
       /\ eff.provider = ""
       /\ eff.token = ""
       /\ ~eff.credBuilt
       /\ ~eff.clientBuilt
       /\ ~eff.engineCalled
       /\ eff.sentQuery = ""

C3_Witness ==
    /\ tool = "kustoQuery"
    /\ QueryPresent(context)
    /\ env.cluster = Str("")
    /\ env.database = None
    /\ ret = Str("Error: KUSTO_CLUSTER_URL environment variable is not set")

\* the audiences a token was sent to or obtained for
AudiencesOf(token) == {p[1] : p \in {q \in sent \cup obtained : q[2] = token}}

\* C4: over any sequence of who_am_i and kusto_query invocations, no token
\* that was sent to or obtained for the graph is a token sent to or obtained
\* for the analytics engine: every token belongs to one audience.
C4_OneAudiencePerToken ==
    \A p \in sent \cup obtained : AudiencesOf(p[2]) = {p[1]}

C4_Witness ==
    /\ \E p \in sent : p[1] = "graph"
    /\ \E p \in sent : p[1] = "kusto"
    /\ tool = "kustoQuery"

\* C5: who_am_i takes the injected-claim path exactly when the identity-claim
\* variable is present and the remote path exactly when it is absent.
C5_ByIdentityClaim ==
    (tool = "whoAmI" /\ ParseOK(context))
    => /\ (eff.principalDecoded /\ ~eff.httpCalled) <=> env.principal.t # "null"
       /\ (eff.provider = "graph") <=> env.principal.t = "null"

\* C5 as amended: who_am_i takes the injected-claim path (no token, no HTTP
\* call; the principal decoded when the identity claim is non-empty) exactly
\* when the access-token variable is present and non-empty, and the remote
\* path (token, then GET when the token was obtained) exactly when it is
\* absent or empty, whatever the identity claim; never both.
C5_ByAccessToken ==
    (tool = "whoAmI" /\ ParseOK(context))
    => /\ Truthy(env.token) =>
            /\ eff.principalRead
            /\ eff.principalDecoded <=> Truthy(env.principal)
            /\ eff.provider = "" /\ ~eff.credBuilt /\ ~eff.httpCalled
       /\ ~Truthy(env.token) =>
            /\ eff.provider = "graph" /\ eff.credBuilt
            /\ eff.httpCalled <=> eff.token # ""
            /\ ~eff.principalRead /\ ~eff.principalDecoded
       /\ ~(eff.principalRead /\ (eff.provider # "" \/ eff.httpCalled))

C5_Witness ==
    /\ tool = "whoAmI"
    /\ ParseOK(context)
    /\ ~Truthy(env.token)
    /\ Truthy(env.principal)
    /\ eff.httpCalled

\* the scope each provider asks a credential for
ScopeOf(fn) == IF fn = "get_access_token" THEN GraphScope ELSE KustoScope

\* the tokens that a credential issued, among those obtained
IssuedTokens == {p[2] : p \in {q \in obtained : q[2] # env.token.v}}

\* C6: a token provider, for either audience, returns the injected token
\* verbatim when it is present and non-empty, building no credential and
\* asking for no scope; otherwise it builds a credential and asks for the
\* .default scope of its own audience.  Each such call asks anew: the tokens
\* issued are as many as the calls that got one.
C6_TokenProvider ==
    /\ call.fn \in {"get_access_token", "get_kusto_access_token"} =>
        IF Truthy(env.token)
        THEN /\ call.k = "return"
             /\ call.token = env.token.v
             /\ ~call.credBuilt
             /\ call.scope = ""
             /\ issued = call.before
        ELSE /\ call.credBuilt
             /\ call.scope = ScopeOf(call.fn)
             /\ call.k = "return" =>
                    /\ issued = call.before + 1
                    /\ call.token = TokenString(ScopeOf(call.fn), issued)
                    /\ <<AudienceOf(call.scope), call.token>> \in obtained
    /\ Cardinality(IssuedTokens) = issued

C6_Witness ==
    /\ call.fn = "get_kusto_access_token"
    /\ ~Truthy(env.token)
    /\ call.k = "return"
    /\ call.before = 1
    /\ issued = 2

\* the results that carry an email after the name
WithEmail ==
    {Str(PyStr(n) \o " (" \o m \o ")") :
        n \in {Str("Alice"), Str("Bob"), Str("Unknown User"), None},
        m \in {"a@x.com", "b@y.com", "bob@y.onmicrosoft.com"}}

\* C7: format_user_info returns "<name> (<email>)" exactly when include_email
\* is true and the email is neither None nor empty, and the name alone
\* otherwise; who_am_i with includeEmail absent or false returns no email.
C7_FormatUserInfo ==
    /\ call.fn = "format_user_info" =>
        call.out = (IF call.include_email = Bool(TRUE) /\ call.email \notin {None, Str("")}
                    THEN Str(PyStr(call.display_name) \o " (" \o call.email.v \o ")")
                    ELSE call.display_name)
    /\ (tool = "whoAmI" /\ ParseOK(context)
            /\ Argument(context, context.includeEmail) \in {Absent, Bool(FALSE)})
        => ret \notin WithEmail

C7_Witness ==
    /\ call.fn = "format_user_info"
    /\ call.include_email = Bool(TRUE)
    /\ call.email = Str("a@x.com")
    /\ call.out = Str("Alice (a@x.com)")

\* C8: a request for getRecentActiveFunctionApps without a subscriptionId is
\* answered by a handler with exactly the subscriptionId error.
C8_SubscriptionIdRequired ==
    (tool = "getRecentActiveFunctionApps" /\ ParseOK(context))
    => ret = Str("Error: subscriptionId parameter is required")

\* the name and email that lines 179-180 take from a response body
DisplayNameOf(response) ==
    IF response.displayName = Absent THEN Str("Unknown User") ELSE response.displayName

EmailOf(response) ==
    IF response.mail \notin {Absent, None, Str("")} THEN response.mail
    ELSE IF response.userPrincipalName = Absent THEN None
    ELSE response.userPrincipalName

\* C9: on the remote path a response with a status other than 200 gives
\* "Failed to get user info: <status> - <body>" and the body is not parsed; a
\* 200 response with an object body gives the name (displayName, default
\* "Unknown User"), with the email (mail, else userPrincipalName) when asked.
C9_RemoteResponse ==
    (tool = "whoAmI" /\ eff.httpCalled /\ world.http.k = "response")
    => IF world.http.status # 200
       THEN /\ ret = Str("Failed to get user info: " \o NumText(world.http.status)
                         \o " - " \o world.http.text)
            /\ ~eff.bodyParsed
       ELSE /\ eff.bodyParsed
            /\ world.http.doc = "object" =>
                ret = (IF Truthy(Get(Argument(context, context.includeEmail), Bool(FALSE)))
                          /\ EmailOf(world.http) # None
                       THEN Str(PyStr(DisplayNameOf(world.http)) \o " ("
                                \o EmailOf(world.http).v \o ")")
                       ELSE DisplayNameOf(world.http))

C9_Witness ==
    /\ tool = "whoAmI"
    /\ eff.httpCalled
    /\ world.http.status = 401
    /\ world.http.doc = "object"
    /\ ret = Str("Failed to get user info: 401 - {..}")

\* the row objects of a table: one per row, in row order, each with one
\* entry per column, in column order
RowObjects(table) ==
    [r \in 1..Len(table.rows) |->
        [i \in 1..Len(table.columns) |-> <<table.columns[i], table.rows[r][i]>>]]

\* every row holds a value for every column
Convertible(table) ==
    /\ table.k = "table"
    /\ \A r \in 1..Len(table.rows) : Len(table.rows[r]) >= Len(table.columns)

KustoErrors ==
    {Str("Kusto service error: Semantic error: failed to resolve table"),
     Str("Error executing Kusto query: Failed to process network request"),
     Str("Error executing Kusto query: list index out of range")}

\* C10: kusto_query returns the JSON array of all the row objects when the
\* engine call and the conversion succeed, and an error message holding no
\* row when the engine fails or a row cannot be converted.
C10_NoPartialResults ==
    (tool = "kustoQuery" /\ eff.engineCalled)
    => IF Convertible(world.engine)
       THEN /\ eff.results = RowObjects(world.engine)
            /\ ret = Str(json_dumps(RowObjects(world.engine)))
       ELSE ret \in KustoErrors

C10_Witness ==
    /\ tool = "kustoQuery"
    /\ eff.engineCalled
    /\ world.engine.k = "table"
    /\ Len(world.engine.rows) = 2
    /\ Len(eff.results) = 1
    /\ ret = Str("Error executing Kusto query: list index out of range")

====
